---- MODULE Spec2Model ----
(***************************************************************************)
(* Model of DrawingView (src/multithreaddraw.py): the gesture state        *)
(* machine, the smoothing window, the vector path, the raster compositor   *)
(* with its running bounding rectangle, clear, raster export, the pin      *)
(* list and the binary canvas file (save / load).                          *)
(*                                                                         *)
(* Units.  Scene coordinates are integers; the sample points used are      *)
(* multiples of 6, so that the divisions by 2 (compositor midpoints) and   *)
(* by 3 (quadratic to cubic elevation inside QPainterPath.quadTo) are      *)
(* exact.  Pressures are in hundredths (5 is 0.05) and pen widths in       *)
(* tenths (20 is the width 2).                                             *)
(*                                                                         *)
(* Qt.  QPainterPath, QRectF, QPixmap and QDataStream are modelled by what *)
(* the calls in the source do in Qt 5: moveTo overwrites a trailing        *)
(* MoveTo element, lineTo / quadTo / cubicTo add nothing when the segment  *)
(* is empty (all its points equal the current position), quadTo stores a   *)
(* cubic (element types 2, 3, 3), QRectF.united ignores a null operand.    *)
(***************************************************************************)
EXTENDS Integers, Sequences, FiniteSets, Bags, TLC

VARIABLES
    use_tablet,            \* self.use_tablet
    drawing,               \* self.drawing (FALSE: Idle, TRUE: Drawing)
    last_points,           \* self.last_points, deque(maxlen=3)
    vector_path,           \* self.vector_path, the element list of the QPainterPath
    stroke_points,         \* self.stroke_points
    stroke_pen_widths,     \* self.stroke_pen_widths
    current_pen_width,     \* self.current_pen_width (tenths)
    raster_pixmap,         \* self.raster_pixmap
    raster_bounding_rect,  \* self.raster_bounding_rect
    pins,                  \* self.pins
    background_visible,    \* self.background_visible
    background_color,      \* self.background_color
    canvas_file,           \* the canvas file on disk
    png_writes,            \* number of PNG files written by save_raster_image
    exported,              \* a pixel of the last export: before and after the binarize loop
    loaded,                \* a load has replaced the document since construction
    ld,                    \* locals of the last load_canvas_from_file: elements, i, reads
    op,                    \* the handler that ran last and its event argument
    ret                    \* what it returned: "None", "True", "False" or "raised"

vars == <<use_tablet, drawing, last_points, vector_path, stroke_points,
          stroke_pen_widths, current_pen_width, raster_pixmap,
          raster_bounding_rect, pins, background_visible, background_color,
          canvas_file, png_writes, exported, loaded, ld, op, ret>>

gestureVars == <<drawing, last_points, vector_path, stroke_points,
                 stroke_pen_widths, current_pen_width, raster_pixmap,
                 raster_bounding_rect>>

docVars == <<vector_path, raster_pixmap, raster_bounding_rect, pins,
             background_visible, background_color>>

(***************************************************************************)
(* Bounds of the model.                                                    *)
(***************************************************************************)
MaxStrokePts == 3      \* samples in one gesture
MaxSmoothPts == 4      \* samples in one gesture of SpecSmooth
MaxPathLen == 5        \* elements of vector_path when a gesture may start
MaxStrokes == 1        \* strokes composited since the last clear or load
MaxBoxStrokes == 2     \* the same, in SpecBox
MaxDocPts == 2         \* samples in one gesture of SpecDoc and SpecExport
MaxDocPath == 6        \* elements of vector_path when a gesture may start in SpecDoc
MaxInk == 1            \* inked strokes in the raster when a gesture may start
MaxPins == 2           \* pins in the registry when a pin may be added
MaxExports == 1        \* PNG files written
MaxElems == 4          \* records in the element list of a loaded file

(***************************************************************************)
(* Program constants.                                                      *)
(***************************************************************************)
DequeMaxLen == 3        \* deque(maxlen=3)
InitialPenWidth == 20   \* current_pen_width = 2
MinPenWidth == 10       \* max(1, ...)
PressureK == 10         \* pressure * 10
PixmapSize == 10000     \* QPixmap(10000, 10000)
MoveToElement == 0
LineToElement == 1
CurveToElement == 2
CurveToDataElement == 3
BinarizeThreshold == 128  \* if brightness < 128
MaxChannel == 255         \* color.red(), green(), blue() lie in 0..255

Min(a, b) == IF a <= b THEN a ELSE b
Max(a, b) == IF a >= b THEN a ELSE b

(***************************************************************************)
(* QRectF.                                                                 *)
(***************************************************************************)
QRectF(x, y, w, h) == [x |-> x, y |-> y, w |-> w, h |-> h]
NullRect == QRectF(0, 0, 0, 0)
isNull(r) == r.w = 0 /\ r.h = 0
isEmpty(r) == r.w <= 0 \/ r.h <= 0

\* QRectF.united (operator|); widths and heights are never negative here.
united(a, b) ==
    IF isNull(a) THEN b
    ELSE IF isNull(b) THEN a
    ELSE LET left   == Min(a.x, b.x)
             right  == Max(a.x + a.w, b.x + b.w)
             top    == Min(a.y, b.y)
             bottom == Max(a.y + a.h, b.y + b.h)
         IN  QRectF(left, top, right - left, bottom - top)

(***************************************************************************)
(* QPainterPath: a sequence of elements [type, x, y].                      *)
(***************************************************************************)
Element(t, p) == [type |-> t, x |-> p[1], y |-> p[2]]
Pos(e) == <<e.x, e.y>>

\* ensureData: the first call that adds to a fresh path gives it MoveTo(0,0).
ensureData(path) ==
    IF path = <<>> THEN <<Element(MoveToElement, <<0, 0>>)>> ELSE path

moveTo(path, p) ==
    LET d == ensureData(path)
    IN  IF d[Len(d)].type = MoveToElement
        THEN [d EXCEPT ![Len(d)] = Element(MoveToElement, p)]
        ELSE Append(d, Element(MoveToElement, p))

lineTo(path, p) ==
    LET d == ensureData(path)
    IN  IF Pos(d[Len(d)]) = p THEN d
        ELSE Append(d, Element(LineToElement, p))

cubicTo(path, c1, c2, e) ==
    LET d == ensureData(path)
    IN  IF Pos(d[Len(d)]) = c1 /\ c1 = c2 /\ c2 = e THEN d
        ELSE d \o <<Element(CurveToElement, c1),
                    Element(CurveToDataElement, c2),
                    Element(CurveToDataElement, e)>>

quadTo(path, c, e) ==
    LET d    == ensureData(path)
        prev == Pos(d[Len(d)])
        c1   == <<(prev[1] + 2 * c[1]) \div 3, (prev[2] + 2 * c[2]) \div 3>>
        c2   == <<(e[1] + 2 * c[1]) \div 3, (e[2] + 2 * c[2]) \div 3>>
    IN  IF prev = c /\ c = e THEN d ELSE cubicTo(d, c1, c2, e)

\* QPainterPath.isEmpty: no element, or a lone MoveTo.
pathIsEmpty(path) ==
    path = <<>> \/ (Len(path) = 1 /\ path[1].type = MoveToElement)

RECURSIVE MinOver(_, _, _), MaxOver(_, _, _)
MinOver(path, f, i) ==
    IF i = Len(path) THEN path[i][f]
    ELSE Min(path[i][f], MinOver(path, f, i + 1))
MaxOver(path, f, i) ==
    IF i = Len(path) THEN path[i][f]
    ELSE Max(path[i][f], MaxOver(path, f, i + 1))

\* QPainterPath.boundingRect.  For the compositor's path (every control
\* point lies on the chord) this is the exact rectangle.  For a general
\* curve Qt returns the curve's extent, which is degenerate in an axis, and
\* lies at the same coordinate, exactly when this rectangle is: the export
\* guard reads no more of it than that.
boundingRect(path) ==
    IF path = <<>> THEN NullRect
    ELSE LET x0 == MinOver(path, "x", 1)
             x1 == MaxOver(path, "x", 1)
             y0 == MinOver(path, "y", 1)
             y1 == MaxOver(path, "y", 1)
         IN  QRectF(x0, y0, x1 - x0, y1 - y0)

(***************************************************************************)
(* QPixmap: whether it is a null pixmap, whether it was last filled        *)
(* transparent or decoded from a file (origin), the content it was loaded  *)
(* with (base) and the strokes handed to a painter on it since (log).  What a stroke paints is fixed by the segments of its     *)
(* path and the pen width, so a stroke is kept as its set of sample        *)
(* points, its set of segments and its width.                              *)
(***************************************************************************)
Pixmap(n, o, b, l) == [null |-> n, origin |-> o, base |-> b, log |-> l]

\* QRectF(self.raster_pixmap.rect())
pixmapRect(pm) == IF pm.null THEN NullRect
                  ELSE QRectF(0, 0, PixmapSize, PixmapSize)

RECURSIVE strokePathFrom(_, _, _)
strokePathFrom(path, pts, i) ==
    IF i > Len(pts) THEN path
    ELSE LET p0 == pts[i - 1]
             p1 == pts[i]
             cp == <<(p0[1] + p1[1]) \div 2, (p0[2] + p1[2]) \div 2>>
         IN  strokePathFrom(quadTo(path, cp, p1), pts, i + 1)

\* The path process_raster_stroke builds from the samples (pts is not empty).
strokePath(pts) == strokePathFrom(moveTo(<<>>, pts[1]), pts, 2)

\* The segments of that path: quadTo adds none between two equal samples.
paintedStroke(pts, width) ==
    [points |-> {pts[i] : i \in 1..Len(pts)},
     segs   |-> {{pts[i], pts[i + 1]} : i \in {j \in 1..(Len(pts) - 1) : pts[j] # pts[j + 1]}},
     width  |-> width]

\* drawPath paints nothing for an empty path.
Paints(s) == s.segs # {}

\* The painted content of a pixmap, as the strokes that left ink and how
\* often each was painted.  A null pixmap has no pixels and no painter can
\* be opened on it.
RECURSIVE inkOf(_)
inkOf(log) ==
    IF log = <<>> THEN EmptyBag
    ELSE (IF Paints(Head(log)) THEN SetToBag({[segs |-> Head(log).segs, width |-> Head(log).width]})
          ELSE EmptyBag) (+) inkOf(Tail(log))

Content(pm) == IF pm.null THEN EmptyBag ELSE pm.base (+) inkOf(pm.log)

(***************************************************************************)
(* Pins, names and the UTF-8 coding of names.  A name is a sequence of     *)
(* code points below 2048; its UTF-8 form is a sequence of bytes.          *)
(***************************************************************************)
Pin(name, pos) == [name |-> name, pos |-> pos]

\* 'Default Pin'
DefaultPinName == <<68, 101, 102, 97, 117, 108, 116, 32, 80, 105, 110>>
default_pin == Pin(DefaultPinName, <<0, 0>>)

RECURSIVE Utf8Encode(_)
Utf8Encode(name) ==
    IF name = <<>> THEN <<>>
    ELSE LET c == Head(name)
         IN  (IF c < 128 THEN <<c>>
              ELSE <<192 + (c \div 64), 128 + (c % 64)>>) \o Utf8Encode(Tail(name))

\* bytes.decode('utf-8'): the name, or not ok (UnicodeDecodeError).
RECURSIVE Utf8Decode(_)
Utf8Decode(bytes) ==
    IF bytes = <<>> THEN [ok |-> TRUE, name |-> <<>>]
    ELSE LET b == Head(bytes)
         IN  IF b < 128
             THEN LET r == Utf8Decode(Tail(bytes))
                  IN  [ok |-> r.ok, name |-> <<b>> \o r.name]
             ELSE IF /\ b >= 194 /\ b < 224 /\ Len(bytes) >= 2
                     /\ bytes[2] >= 128 /\ bytes[2] < 192
             THEN LET r == Utf8Decode(Tail(Tail(bytes)))
                  IN  [ok |-> r.ok,
                       name |-> <<(b - 192) * 64 + (bytes[2] - 128)>> \o r.name]
             ELSE [ok |-> FALSE, name |-> <<>>]

(***************************************************************************)
(* The smoothing window and the pressure to width mapping.                 *)
(***************************************************************************)
\* A window that never drops its oldest point.
dequeAppend_Unbounded(d, x) == Append(d, x)

\* deque(maxlen=3).append
dequeAppend(d, x) ==
    IF Len(d) = DequeMaxLen THEN Append(Tail(d), x) ELSE Append(d, x)

\* smooth_path: the vector path after feeding new_point to the window lp.
smooth_path(path, lp, new_point) ==
    LET w == dequeAppend(lp, new_point)
    IN  IF Len(w) = 3 THEN quadTo(path, w[2], w[3]) ELSE path

\* A mapping without the floor of 1.
penWidth_NoFloor(pressure) == (pressure * PressureK) \div 10

\* max(1, pressure * 10), pressure in hundredths, the width in tenths.
penWidth(pressure) == Max(MinPenWidth, (pressure * PressureK) \div 10)

(***************************************************************************)
(* process_raster_stroke.  With no sample stroke_points[0] raises before   *)
(* anything is assigned.                                                   *)
(***************************************************************************)
strokeRaises == stroke_points = <<>>

\* A compositor that keeps only the last stroke's rectangle.
process_raster_stroke_NoUnion ==
    /\ raster_pixmap' =
          [raster_pixmap EXCEPT !.log =
              Append(@, paintedStroke(stroke_points, current_pen_width))]
    /\ raster_bounding_rect' = boundingRect(strokePath(stroke_points))

process_raster_stroke ==
    LET stroke_bounding_rect == boundingRect(strokePath(stroke_points))
    IN  /\ raster_pixmap' =
              [raster_pixmap EXCEPT !.log =
                  Append(@, paintedStroke(stroke_points, current_pen_width))]
        /\ raster_bounding_rect' =
              IF isNull(raster_bounding_rect) THEN stroke_bounding_rect
              ELSE united(raster_bounding_rect, stroke_bounding_rect)

(***************************************************************************)
(* The event handlers of the gesture state machine.                        *)
(***************************************************************************)
\* A mouse handler that ignores the latch.
mouseMayDraw_NoLatch == TRUE

\* "not self.use_tablet": the guard of the three mouse handlers.
mouseMayDraw == ~use_tablet

\* A release that forgets to leave Drawing.
drawingAfterRelease_Stuck == drawing

\* "self.drawing = False" at the end of a release.
drawingAfterRelease == FALSE

Did(name, arg, result) ==
    /\ op' = [name |-> name, arg |-> arg]
    /\ ret' = result

otherVars == <<pins, background_visible, background_color, canvas_file,
               png_writes, exported, loaded, ld>>

tabletEvent(type, point, pressure) ==
    /\ use_tablet' = TRUE
    /\ UNCHANGED otherVars
    /\ IF type = "TabletPress" THEN
           /\ last_points' = <<point>>
           /\ stroke_points' = <<point>>
           /\ drawing' = TRUE
           /\ vector_path' = moveTo(vector_path, point)
           /\ current_pen_width' = penWidth(pressure)
           /\ stroke_pen_widths' = <<penWidth(pressure)>>
           /\ UNCHANGED <<raster_pixmap, raster_bounding_rect>>
           /\ Did("tabletEvent", type, "None")
       ELSE IF type = "TabletMove" /\ drawing THEN
           /\ current_pen_width' = penWidth(pressure)
           /\ stroke_pen_widths' = Append(stroke_pen_widths, penWidth(pressure))
           /\ vector_path' = smooth_path(vector_path, last_points, point)
           /\ last_points' = dequeAppend(last_points, point)
           /\ stroke_points' = Append(stroke_points, point)
           /\ UNCHANGED <<drawing, raster_pixmap, raster_bounding_rect>>
           /\ Did("tabletEvent", type, "None")
       ELSE IF type = "TabletRelease" THEN
           IF drawing /\ strokeRaises THEN
               /\ UNCHANGED gestureVars
               /\ Did("tabletEvent", type, "raised")
           ELSE
               /\ IF drawing THEN process_raster_stroke
                  ELSE UNCHANGED <<raster_pixmap, raster_bounding_rect>>
               /\ drawing' = drawingAfterRelease
               /\ UNCHANGED <<last_points, vector_path, stroke_points,
                              stroke_pen_widths, current_pen_width>>
               /\ Did("tabletEvent", type, "None")
       ELSE
           /\ UNCHANGED gestureVars
           /\ Did("tabletEvent", type, "None")

mousePressEvent(button, point) ==
    /\ UNCHANGED <<use_tablet, otherVars>>
    /\ Did("mousePressEvent", button, "None")
    /\ IF mouseMayDraw /\ button = "LeftButton" THEN
           /\ last_points' = <<point>>
           /\ stroke_points' = <<point>>
           /\ stroke_pen_widths' = <<>>
           /\ drawing' = TRUE
           /\ vector_path' = moveTo(vector_path, point)
           /\ UNCHANGED <<current_pen_width, raster_pixmap, raster_bounding_rect>>
       ELSE UNCHANGED gestureVars

mouseMoveEvent(point) ==
    /\ UNCHANGED <<use_tablet, otherVars>>
    /\ Did("mouseMoveEvent", "", "None")
    /\ IF mouseMayDraw /\ drawing THEN
           /\ vector_path' = smooth_path(vector_path, last_points, point)
           /\ last_points' = dequeAppend(last_points, point)
           /\ stroke_points' = Append(stroke_points, point)
           /\ UNCHANGED <<drawing, stroke_pen_widths, current_pen_width,
                          raster_pixmap, raster_bounding_rect>>
       ELSE UNCHANGED gestureVars

mouseReleaseEvent(button) ==
    /\ UNCHANGED <<use_tablet, otherVars>>
    /\ IF mouseMayDraw /\ button = "LeftButton" /\ drawing THEN
           IF strokeRaises THEN
               /\ UNCHANGED gestureVars
               /\ Did("mouseReleaseEvent", button, "raised")
           ELSE
               /\ process_raster_stroke
               /\ drawing' = drawingAfterRelease
               /\ UNCHANGED <<last_points, vector_path, stroke_points,
                              stroke_pen_widths, current_pen_width>>
               /\ Did("mouseReleaseEvent", button, "None")
       ELSE
           /\ UNCHANGED gestureVars
           /\ Did("mouseReleaseEvent", button, "None")

(***************************************************************************)
(* clear_canvas.  fill() on a null pixmap leaves it null.                  *)
(***************************************************************************)
\* A clear that forgets the bounding rectangle.
clear_canvas_KeepsRect ==
    /\ vector_path' = <<>>
    /\ raster_pixmap' = Pixmap(raster_pixmap.null, "fill", EmptyBag, <<>>)
    /\ UNCHANGED <<use_tablet, drawing, last_points, stroke_points,
                   stroke_pen_widths, current_pen_width, otherVars,
                   raster_bounding_rect>>
    /\ Did("clear_canvas", "", "None")

\* A clear that also empties the per-gesture sample list.
clear_canvas_DropsSamples ==
    /\ vector_path' = <<>>
    /\ raster_pixmap' = Pixmap(raster_pixmap.null, "fill", EmptyBag, <<>>)
    /\ raster_bounding_rect' = NullRect
    /\ stroke_points' = <<>>
    /\ UNCHANGED <<use_tablet, drawing, last_points,
                   stroke_pen_widths, current_pen_width, otherVars>>
    /\ Did("clear_canvas", "", "None")

clear_canvas ==
    /\ vector_path' = <<>>
    /\ raster_pixmap' = Pixmap(raster_pixmap.null, "fill", EmptyBag, <<>>)
    /\ raster_bounding_rect' = NullRect
    /\ UNCHANGED <<use_tablet, drawing, last_points, stroke_points,
                   stroke_pen_widths, current_pen_width, otherVars>>
    /\ Did("clear_canvas", "", "None")

(***************************************************************************)
(* save_raster_image: returns early, writing nothing, when the union of    *)
(* the two bounding rectangles is null or empty.                           *)
(***************************************************************************)
\* An export that takes the pixmap's rectangle for the raster's.
total_bounding_rect_OfPixmap ==
    united(boundingRect(vector_path), pixmapRect(raster_pixmap))

total_bounding_rect ==
    united(boundingRect(vector_path), raster_bounding_rect)

nothingToSave == isNull(total_bounding_rect) \/ isEmpty(total_bounding_rect)

\* No export has written a file yet.
NoExport == [pixel |-> <<>>, colour |-> "none"]

\* The binarize loop's test with "<=" for "<".
binarize_Inclusive(c) ==
    IF c[1] + c[2] + c[3] <= 3 * BinarizeThreshold THEN "black" ELSE "white"

\* The binarize loop on one pixel c = <<red, green, blue>>: brightness =
\* (red + green + blue) / 3 is a true division, so brightness < 128 exactly
\* when red + green + blue < 3 * 128.  The pixel's alpha is not read.
binarize(c) ==
    IF c[1] + c[2] + c[3] < 3 * BinarizeThreshold THEN "black" ELSE "white"

\* pixel: the colour of one pixel of the image painted before the loop.
save_raster_image(pixel) ==
    /\ png_writes' = IF nothingToSave THEN png_writes ELSE png_writes + 1
    /\ exported' = IF nothingToSave THEN exported
                   ELSE [pixel |-> pixel, colour |-> binarize(pixel)]
    /\ UNCHANGED <<use_tablet, gestureVars, pins, background_visible,
                   background_color, canvas_file, loaded, ld>>
    /\ Did("save_raster_image", "", "None")

(***************************************************************************)
(* toggle_background, add_pin, remove_pin.                                 *)
(***************************************************************************)
toggle_background ==
    /\ background_visible' = ~background_visible
    /\ background_color' = IF background_visible THEN "transparent" ELSE "white"
    /\ UNCHANGED <<use_tablet, gestureVars, pins, canvas_file, png_writes, exported,
                   loaded, ld>>
    /\ Did("toggle_background", "", "None")

add_pin(name, pos) ==
    /\ pins' = Append(pins, Pin(name, pos))
    /\ UNCHANGED <<use_tablet, gestureVars, background_visible,
                   background_color, canvas_file, png_writes, exported,
                   loaded, ld>>
    /\ Did("add_pin", "", "None")

RECURSIVE pinsNotNamed(_, _)
pinsNotNamed(ps, name) ==
    IF ps = <<>> THEN <<>>
    ELSE (IF Head(ps).name # name THEN <<Head(ps)>> ELSE <<>>)
         \o pinsNotNamed(Tail(ps), name)

remove_pin(name) ==
    /\ pins' = pinsNotNamed(pins, name)
    /\ UNCHANGED <<use_tablet, gestureVars, background_visible,
                   background_color, canvas_file, png_writes, exported,
                   loaded, ld>>
    /\ Did("remove_pin", "", "None")

(***************************************************************************)
(* The canvas file: the embedded PNG, the element records, the pin records *)
(* (byte length of the name, the name's bytes, the position) and the       *)
(* background flag.  NoFile: there is no file to open.                     *)
(***************************************************************************)
Png(pm) == [ok |-> ~pm.null, content |-> Content(pm)]

\* QImage.loadFromData + QPixmap.fromImage: bytes that do not decode give a
\* null pixmap.
fromPng(png) == IF png.ok THEN Pixmap(FALSE, "file", png.content, <<>>)
                ELSE Pixmap(TRUE, "file", EmptyBag, <<>>)

\* A record whose length field counts characters, not bytes.
pinRecord_CharLength(pin) ==
    [len |-> Len(pin.name), bytes |-> Utf8Encode(pin.name),
     x |-> pin.pos[1], y |-> pin.pos[2]]

pinRecord(pin) ==
    LET name_bytes == Utf8Encode(pin.name)
    IN  [len |-> Len(name_bytes), bytes |-> name_bytes,
         x |-> pin.pos[1], y |-> pin.pos[2]]

pathElements(path) ==
    [i \in 1..Len(path) |-> [type |-> path[i].type, x |-> path[i].x, y |-> path[i].y]]

NoFile == [exists |-> FALSE, png |-> [ok |-> FALSE, content |-> EmptyBag],
           elements |-> <<>>, pin_records |-> <<>>, bg |-> FALSE]

CanvasFile(png, elements, pin_records, bg) ==
    [exists |-> TRUE, png |-> png, elements |-> elements,
     pin_records |-> pin_records, bg |-> bg]

\* What save_canvas_to_file writes.
savedFile ==
    CanvasFile(Png(raster_pixmap), pathElements(vector_path),
               [i \in 1..Len(pins) |-> pinRecord(pins[i])], background_visible)

save_canvas_to_file(open_ok) ==
    /\ canvas_file' = IF open_ok THEN savedFile ELSE canvas_file
    /\ UNCHANGED <<use_tablet, gestureVars, pins, background_visible,
                   background_color, png_writes, exported, loaded, ld>>
    /\ Did("save_canvas_to_file", "", IF open_ok THEN "True" ELSE "False")

(***************************************************************************)
(* load_canvas_from_file.                                                  *)
(***************************************************************************)
\* elements[i] of the 0-based Python list; an index outside it is recorded.
OutOfRange == [type |-> -1, x |-> 0, y |-> 0]
elemAt(elements, i) ==
    IF i >= 0 /\ i < Len(elements) THEN elements[i + 1] ELSE OutOfRange

\* A reassembly whose curve guard is off by one (i + 1 < len(elements)).
RECURSIVE reassemble_OffByOne(_, _, _, _)
reassemble_OffByOne(elements, i, path, reads) ==
    IF ~(i < Len(elements)) THEN [path |-> path, i |-> i, reads |-> reads]
    ELSE LET e == elemAt(elements, i)
             r == Max(reads, i)
         IN  IF e.type = 0 THEN
                 reassemble_OffByOne(elements, i + 1, moveTo(path, Pos(e)), r)
             ELSE IF e.type = 1 THEN
                 reassemble_OffByOne(elements, i + 1, lineTo(path, Pos(e)), r)
             ELSE IF e.type = 2 THEN
                 IF i + 1 < Len(elements) THEN
                     reassemble_OffByOne(elements, i + 3,
                                cubicTo(path, Pos(e), Pos(elemAt(elements, i + 1)),
                                        Pos(elemAt(elements, i + 2))),
                                Max(r, i + 2))
                 ELSE [path |-> path, i |-> i, reads |-> r]
             ELSE reassemble_OffByOne(elements, i + 1, path, r)

\* The while loop rebuilding the path: the path so far, the index i and the
\* greatest index read.  Returns them as the loop leaves them.
RECURSIVE reassemble(_, _, _, _)
reassemble(elements, i, path, reads) ==
    IF ~(i < Len(elements)) THEN [path |-> path, i |-> i, reads |-> reads]
    ELSE LET e == elemAt(elements, i)
             r == Max(reads, i)
         IN  IF e.type = 0 THEN
                 reassemble(elements, i + 1, moveTo(path, Pos(e)), r)
             ELSE IF e.type = 1 THEN
                 reassemble(elements, i + 1, lineTo(path, Pos(e)), r)
             ELSE IF e.type = 2 THEN
                 IF i + 2 < Len(elements) THEN
                     reassemble(elements, i + 3,
                                cubicTo(path, Pos(e), Pos(elemAt(elements, i + 1)),
                                        Pos(elemAt(elements, i + 2))),
                                Max(r, i + 2))
                 ELSE [path |-> path, i |-> i, reads |-> r]
             ELSE reassemble(elements, i + 1, path, r)

\* The pins loop: the pins appended before the first name that does not
\* decode, and whether one did not.
RECURSIVE readPins(_, _)
readPins(records, acc) ==
    IF records = <<>> THEN [ok |-> TRUE, pins |-> acc]
    ELSE LET rec == Head(records)
             d   == Utf8Decode(SubSeq(rec.bytes, 1, rec.len))
         IN  IF ~d.ok THEN [ok |-> FALSE, pins |-> acc]
             ELSE readPins(Tail(records),
                           Append(acc, Pin(d.name, <<rec.x, rec.y>>)))

load_canvas_from_file(file) ==
    /\ UNCHANGED <<use_tablet, drawing, last_points, stroke_points,
                   stroke_pen_widths, current_pen_width, canvas_file, png_writes,
                   exported>>
    /\ IF ~file.exists THEN
           /\ UNCHANGED <<docVars, loaded, ld>>
           /\ Did("load_canvas_from_file", "", "False")
       ELSE
           LET pm == fromPng(file.png)
               l  == reassemble(file.elements, 0, <<>>, -1)
               ps == readPins(file.pin_records, <<>>)
           IN  /\ raster_pixmap' = pm
               /\ raster_bounding_rect' = pixmapRect(pm)
               /\ vector_path' = l.path
               /\ ld' = [elements |-> file.elements, i |-> l.i, reads |-> l.reads]
               /\ pins' = ps.pins
               /\ loaded' = TRUE
               /\ IF ps.ok THEN
                      /\ background_visible' = file.bg
                      /\ background_color' = IF file.bg THEN "white" ELSE "transparent"
                      /\ Did("load_canvas_from_file", "", "True")
                  ELSE
                      /\ UNCHANGED <<background_visible, background_color>>
                      /\ Did("load_canvas_from_file", "", "raised")

(***************************************************************************)
(* The state after DrawingView.__init__ (no rvsettings.ini: a first start).*)
(***************************************************************************)
Init ==
    /\ use_tablet = FALSE
    /\ drawing = FALSE
    /\ last_points = <<>>
    /\ vector_path = <<>>
    /\ stroke_points = <<>>
    /\ stroke_pen_widths = <<>>
    /\ current_pen_width = InitialPenWidth
    /\ raster_pixmap = Pixmap(FALSE, "fill", EmptyBag, <<>>)
    /\ raster_bounding_rect = NullRect
    /\ pins = <<default_pin>>
    /\ background_visible = TRUE
    /\ background_color = "white"
    /\ canvas_file = NoFile
    /\ png_writes = 0
    /\ exported = NoExport
    /\ loaded = FALSE
    /\ ld = [elements |-> <<>>, i |-> 0, reads |-> -1]
    /\ op = [name |-> "__init__", arg |-> ""]
    /\ ret = "None"

(***************************************************************************)
(* The environment: the events and commands the user can issue, with the   *)
(* inputs of the model.  The guards here only bound the model: a gesture   *)
(* starts while the path and the stroke log are short, and is extended     *)
(* while it is short.                                                      *)
(***************************************************************************)
Points2 == {<<0, 0>>, <<6, 12>>}
Points3 == {<<0, 0>>, <<6, 12>>, <<12, 0>>}
Buttons == {"LeftButton", "RightButton"}
TabletTypes == {"TabletPress", "TabletMove", "TabletRelease"}

MayStart(maxPath, maxStrokes) ==
    Len(vector_path) < maxPath /\ Len(raster_pixmap.log) < maxStrokes
MayExtend(maxPts) == Len(stroke_points) < maxPts

\* The file save_canvas_to_file writes for the freshly constructed view.
EmptyDocFile ==
    CanvasFile([ok |-> TRUE, content |-> EmptyBag], <<>>,
               <<pinRecord(default_pin)>>, TRUE)

\* A file whose embedded image does not decode and whose path is one line.
BadPngFile ==
    CanvasFile([ok |-> FALSE, content |-> EmptyBag],
               <<[type |-> 1, x |-> 6, y |-> 12]>>, <<>>, FALSE)

Tablet(P, Pr, maxPts, maxPath, maxStrokes) ==
    \E t \in TabletTypes, p \in P, pr \in Pr :
        /\ t = "TabletPress" => MayStart(maxPath, maxStrokes)
        /\ (t = "TabletMove" /\ drawing) => MayExtend(maxPts)
        /\ tabletEvent(t, p, pr)

MousePress(P, maxPath, maxStrokes) ==
    \E b \in Buttons, p \in P :
        /\ (mouseMayDraw /\ b = "LeftButton") => MayStart(maxPath, maxStrokes)
        /\ mousePressEvent(b, p)

MouseMove(P, maxPts) ==
    \E p \in P :
        /\ (mouseMayDraw /\ drawing) => MayExtend(maxPts)
        /\ mouseMoveEvent(p)

MouseRelease == \E b \in Buttons : mouseReleaseEvent(b)

Load(Files) == \E f \in Files : load_canvas_from_file(f)

(***************************************************************************)
(* Spec: the gesture state machine under stylus, mouse, clear and load     *)
(* events in any order.                                                    *)
(***************************************************************************)
Next ==
    \/ Tablet(Points2, {50}, MaxStrokePts, MaxPathLen, MaxStrokes)
    \/ MousePress(Points2, MaxPathLen, MaxStrokes)
    \/ MouseMove(Points2, MaxStrokePts)
    \/ MouseRelease
    \/ clear_canvas
    \/ Load({NoFile, EmptyDocFile, BadPngFile})

Spec == Init /\ [][Next]_vars

IsMouseEvent(o) ==
    o.name \in {"mousePressEvent", "mouseMoveEvent", "mouseReleaseEvent"}
IsStylusRelease(o) == o.name = "tabletEvent" /\ o.arg = "TabletRelease"
IsButtonRelease(o) == o.name = "mouseReleaseEvent" /\ o.arg = "LeftButton"

\* C1: once a stylus event has been handled the stylus-mode flag stays set,
\* and every mouse press, move or release after it leaves the gesture
\* state, the vector path, the smoothing window, the per-gesture sample and
\* width lists, the pen width, the raster buffer and its bounding rectangle
\* unchanged.
C1_StylusLatch ==
    [][ /\ use_tablet => use_tablet'
        /\ (op.name = "tabletEvent" \/ op'.name = "tabletEvent") => use_tablet'
        /\ (use_tablet /\ IsMouseEvent(op')) => UNCHANGED gestureVars ]_vars

\* A left-button press arrived in stylus mode while Idle and drew nothing.
C1_Witness ==
    /\ use_tablet /\ ~drawing
    /\ op = [name |-> "mousePressEvent", arg |-> "LeftButton"]

\* C2 as claimed: a stylus release or a primary-button release received in
\* state Drawing leaves the controller Idle.
C2_Original ==
    [][ (drawing /\ (IsStylusRelease(op') \/ IsButtonRelease(op')))
            => ~drawing' ]_vars

\* C2 as amended: a stylus release received in Drawing leaves the controller
\* Idle; a primary-button release received in Drawing leaves it Idle when
\* stylus mode is not latched, and is ignored (the controller stays Drawing)
\* when it is.
C2_GestureEnd ==
    [][ /\ (drawing /\ IsStylusRelease(op')) => ~drawing'
        /\ (drawing /\ ~use_tablet /\ IsButtonRelease(op')) => ~drawing'
        /\ (drawing /\ use_tablet /\ IsButtonRelease(op')) => drawing' ]_vars

\* A stylus release ended a gesture and composited its stroke, after a load
\* had replaced the document.
C2_Witness ==
    /\ IsStylusRelease(op) /\ ~drawing /\ loaded
    /\ Len(raster_pixmap.log) > 0

\* C5: clear is enabled in every state, and in the state right after it the
\* vector path has no element (its bounding rectangle is the null
\* rectangle), the raster buffer holds no ink and RasterBoundingBox is the
\* null rectangle.
C5_ClearAnyTime ==
    /\ ENABLED clear_canvas
    /\ op.name = "clear_canvas" =>
          /\ vector_path = <<>>
          /\ boundingRect(vector_path) = NullRect
          /\ Content(raster_pixmap) = EmptyBag
          /\ raster_bounding_rect = NullRect

\* Clear ran in the middle of a gesture that had already drawn a curve.
C5_Witness ==
    /\ op.name = "clear_canvas" /\ drawing
    /\ Len(stroke_points) >= 3

(***************************************************************************)
(* SpecSmooth: gestures alone (stylus and mouse press, move, release; no   *)
(* clear, load or other command), up to MaxSmoothPts samples each.         *)
(***************************************************************************)
NextSmooth ==
    \/ Tablet(Points2, {50}, MaxSmoothPts, MaxPathLen, MaxStrokes)
    \/ MousePress(Points2, MaxPathLen, MaxStrokes)
    \/ MouseMove(Points2, MaxSmoothPts)
    \/ MouseRelease

SpecSmooth == Init /\ [][NextSmooth]_vars

\* The elements the current gesture appended: those after the last MoveTo.
lastMoveIndex(path) ==
    LET M == {i \in 1..Len(path) : path[i].type = MoveToElement}
    IN  IF M = {} THEN 0 ELSE CHOOSE i \in M : \A j \in M : j <= i
gestureTail(path) == SubSeq(path, lastMoveIndex(path) + 1, Len(path))
curveCount(elems) ==
    Cardinality({i \in 1..Len(elems) : elems[i].type = CurveToElement})

\* The k-th segment the smoothing window issues for the samples s: control
\* point s[k+1], end point s[k+2], starting where the path stands (the
\* gesture's start point for k = 1, the previous end point s[k+1] after).
segStart(s, k) == IF k = 1 THEN s[1] ELSE s[k + 1]
segIsEmpty(s, k) == segStart(s, k) = s[k + 1] /\ s[k + 1] = s[k + 2]
third(a, c) == <<(a[1] + 2 * c[1]) \div 3, (a[2] + 2 * c[2]) \div 3>>
segElements(s, k) ==
    <<Element(CurveToElement, third(segStart(s, k), s[k + 1])),
      Element(CurveToDataElement, third(s[k + 2], s[k + 1])),
      Element(CurveToDataElement, s[k + 2])>>

RECURSIVE segsUpTo(_, _, _)
segsUpTo(s, k, skipEmpty) ==
    IF k < 1 THEN <<>>
    ELSE segsUpTo(s, k - 1, skipEmpty)
         \o (IF skipEmpty /\ segIsEmpty(s, k) THEN <<>> ELSE segElements(s, k))

windowOf(s) ==
    SubSeq(s, Max(1, Len(s) - DequeMaxLen + 1), Len(s))

\* C3 as claimed: a gesture of N samples has appended exactly N-2 curve
\* segments when N >= 3 and none when N < 3, the k-th with sample k+1 as
\* control point and sample k+2 as end point; the window was emptied at the
\* gesture's start (it holds the last samples of this gesture only).
C3_Original ==
    stroke_points # <<>> =>
        LET N == Len(stroke_points)
        IN  /\ curveCount(gestureTail(vector_path)) = Max(0, N - 2)
            /\ gestureTail(vector_path) = segsUpTo(stroke_points, N - 2, FALSE)
            /\ last_points = windowOf(stroke_points)

\* C3 as amended: the window issues exactly N-2 segments when N >= 3 and
\* none when N < 3, the k-th with sample k+1 as control point and sample
\* k+2 as end point, and the path appends each of them except an empty one
\* (start, control and end point equal), which it drops; so N-2 segments
\* are appended when none is empty.  The gesture's elements follow the
\* MoveTo of its start point, and the window holds the last samples of
\* this gesture only.
C3_Segments ==
    stroke_points # <<>> =>
        LET N == Len(stroke_points)
            E == {k \in 1..(N - 2) : segIsEmpty(stroke_points, k)}
        IN  /\ gestureTail(vector_path) = segsUpTo(stroke_points, N - 2, TRUE)
            /\ curveCount(gestureTail(vector_path)) = Max(0, N - 2) - Cardinality(E)
            /\ lastMoveIndex(vector_path) > 0
            /\ Pos(vector_path[lastMoveIndex(vector_path)]) = stroke_points[1]
            /\ last_points = windowOf(stroke_points)

\* A gesture of four samples, the last three equal: its second segment was
\* empty and only the first was appended.
C3_Witness ==
    /\ Len(stroke_points) = 4
    /\ stroke_points[2] = stroke_points[3] /\ stroke_points[3] = stroke_points[4]
    /\ stroke_points[1] # stroke_points[2]
    /\ curveCount(gestureTail(vector_path)) = 1

(***************************************************************************)
(* SpecBox: mouse gestures over three points, clear and load: the running  *)
(* bounding rectangle of the raster.                                       *)
(***************************************************************************)
NextBox ==
    \/ MousePress(Points3, MaxPathLen, MaxBoxStrokes)
    \/ MouseMove(Points3, MaxStrokePts)
    \/ MouseRelease
    \/ clear_canvas
    \/ Load({NoFile, EmptyDocFile, BadPngFile})

SpecBox == Init /\ [][NextBox]_vars

\* The smallest rectangle around a non-empty set of rectangles.
hull(R) ==
    LET x0 == CHOOSE v \in {r.x : r \in R} : \A r \in R : v <= r.x
        y0 == CHOOSE v \in {r.y : r \in R} : \A r \in R : v <= r.y
        x1 == CHOOSE v \in {r.x + r.w : r \in R} : \A r \in R : v >= r.x + r.w
        y1 == CHOOSE v \in {r.y + r.h : r \in R} : \A r \in R : v >= r.y + r.h
    IN  QRectF(x0, y0, x1 - x0, y1 - y0)

\* The path bounding rectangle of a composited stroke: the compositor's
\* control points lie on the chords between the samples.
strokeRect(s) == hull({QRectF(p[1], p[2], 0, 0) : p \in s.points})
logRects == {strokeRect(raster_pixmap.log[i]) : i \in 1..Len(raster_pixmap.log)}
contains(r, p) ==
    r.x <= p[1] /\ p[1] <= r.x + r.w /\ r.y <= p[2] /\ p[2] <= r.y + r.h

\* The rectangle the ink of a stroke covers, in twentieths of a unit: the
\* round pen of width w (tenths) reaches w/2 beyond the path on every side.
inkRect(s) ==
    LET r == strokeRect(s)
    IN  QRectF(20 * r.x - s.width, 20 * r.y - s.width,
               20 * r.w + 2 * s.width, 20 * r.h + 2 * s.width)
inkRects ==
    {inkRect(raster_pixmap.log[i]) :
        i \in {j \in 1..Len(raster_pixmap.log) : Paints(raster_pixmap.log[j])}}
times20(r) == QRectF(20 * r.x, 20 * r.y, 20 * r.w, 20 * r.h)

\* C4 as claimed: RasterBoundingBox is the union of the path bounding
\* rectangles of the strokes composited since the last clear or load, the
\* null rectangle when there is none; it contains every sample point of
\* every such stroke and is the tightest rectangle around the ink they
\* left.
C4_Original ==
    /\ raster_pixmap.log = <<>> => raster_bounding_rect = NullRect
    /\ raster_pixmap.log # <<>> => raster_bounding_rect = hull(logRects)
    /\ \A i \in 1..Len(raster_pixmap.log) : \A p \in raster_pixmap.log[i].points :
          contains(raster_bounding_rect, p)
    /\ inkRects # {} => times20(raster_bounding_rect) = hull(inkRects)

\* C4 as amended: RasterBoundingBox is the union of the loaded raster's
\* full rectangle (when a load has replaced the raster since the last
\* clear) and the path bounding rectangles of the strokes handed to the
\* compositor since the last clear or load, a null rectangle (no width and
\* no height: a stroke whose samples are all one point, a raster that did
\* not decode) counting for nothing; it is null when nothing else is in the
\* union; it contains every sample point of every such stroke whose
\* rectangle is not null.  It bounds the paths, not the ink.
C4_RasterBox ==
    LET fileRect == IF raster_pixmap.origin = "file"
                    THEN {pixmapRect(raster_pixmap)} ELSE {}
        R == {r \in fileRect \cup logRects : ~isNull(r)}
    IN  /\ R = {} => isNull(raster_bounding_rect)
        /\ R # {} => raster_bounding_rect = hull(R)
        /\ \A i \in 1..Len(raster_pixmap.log) :
              ~isNull(strokeRect(raster_pixmap.log[i])) =>
                  \A p \in raster_pixmap.log[i].points :
                      contains(raster_bounding_rect, p)
        /\ (raster_pixmap.origin = "fill" /\ raster_pixmap.log = <<>>) =>
              raster_bounding_rect = NullRect

\* Two strokes with different rectangles were composited since the last
\* clear; the rectangle is their union and is larger than either.
C4_Witness ==
    /\ IsButtonRelease(op) /\ raster_pixmap.origin = "fill"
    /\ Len(raster_pixmap.log) = 2
    /\ \A r \in logRects : ~isNull(r) /\ r # raster_bounding_rect

(***************************************************************************)
(* SpecDoc: editing (short mouse gestures, pins, background, loading a     *)
(* hand-made file), then saving, then the commands that follow a save      *)
(* (load, clear, background, removing a pin, saving again).  Load reads    *)
(* the file on disk (none before the first save) or one of two hand-made   *)
(* files.                                                                  *)
(***************************************************************************)
PinNames == {DefaultPinName, <<233>>}     \* 'Default Pin' and a non-ASCII name

\* A file with a move, a line and a curve, one pin and the background off.
LineFile ==
    CanvasFile([ok |-> TRUE, content |-> EmptyBag],
               <<[type |-> 0, x |-> 0, y |-> 0], [type |-> 1, x |-> 6, y |-> 12],
                 [type |-> 2, x |-> 6, y |-> 0], [type |-> 3, x |-> 0, y |-> 6],
                 [type |-> 3, x |-> 0, y |-> 0]>>,
               <<pinRecord(Pin(<<233>>, <<6, 12>>))>>, FALSE)

\* A file whose second pin name is not UTF-8 (the byte 255).
BadNameFile ==
    CanvasFile([ok |-> TRUE, content |-> EmptyBag],
               <<[type |-> 0, x |-> 6, y |-> 12]>>,
               <<pinRecord(Pin(<<80>>, <<0, 0>>)),
                 [len |-> 1, bytes |-> <<255>>, x |-> 0, y |-> 0]>>, FALSE)

InkBelow(maxInk) == BagCardinality(Content(raster_pixmap)) < maxInk

AddPin(Names) == \E n \in Names : Len(pins) < MaxPins /\ add_pin(n, <<6, 12>>)
RemovePin(Names) == \E n \in Names : remove_pin(n)
Save == \E open_ok \in BOOLEAN : save_canvas_to_file(open_ok)
Export(Pixels) ==
    \E px \in Pixels :
        (~nothingToSave => png_writes < MaxExports) /\ save_raster_image(px)

NextDoc ==
    \/ ~canvas_file.exists /\ InkBelow(MaxInk)
          /\ MousePress(Points2, MaxDocPath, MaxStrokes)
    \/ ~canvas_file.exists /\ MouseMove(Points2, MaxDocPts)
    \/ MouseRelease
    \/ canvas_file.exists /\ clear_canvas
    \/ toggle_background
    \/ ~canvas_file.exists /\ AddPin({<<233>>})
    \/ RemovePin(PinNames)
    \/ Save
    \/ Load({canvas_file, LineFile, BadNameFile})

SpecDoc == Init /\ [][NextDoc]_vars

IsLoad(o) == o.name = "load_canvas_from_file"

\* C6: save/load round trip.  Whenever the file on disk is what saving the
\* current document writes, loading it succeeds and yields a vector path with
\* the same element list (types and coordinates, in order), the same pin list
\* (names, positions, order), the same background-visible flag and a raster
\* identical to the one saved.  This is checked for every document, so also
\* for those with move, line and curve elements and at least one pin.
C6_RoundTrip ==
    [][(canvas_file.exists /\ canvas_file = savedFile
        /\ load_canvas_from_file(canvas_file))
       => /\ ret' = "True"
          /\ pathElements(vector_path') = pathElements(vector_path)
          /\ pins' = pins
          /\ background_visible' = background_visible
          /\ raster_pixmap'.null = raster_pixmap.null
          /\ Content(raster_pixmap') = Content(raster_pixmap)]_vars

\* A document with a move, a line and a curve element, a pin with a non-ASCII
\* name and an inked raster has been saved and loaded back.
C6_Witness ==
    /\ IsLoad(op) /\ ret = "True"
    /\ canvas_file.exists /\ canvas_file = savedFile
    /\ \E i \in 1..Len(vector_path) : vector_path[i].type = LineToElement
    /\ \E i \in 1..Len(vector_path) : vector_path[i].type = CurveToElement
    /\ vector_path[1].type = MoveToElement
    /\ \E i \in 1..Len(pins) : pins[i].name = <<233>>
    /\ BagCardinality(Content(raster_pixmap)) > 0

\* C7: load is all-or-nothing: every load either succeeds, or leaves the
\* vector path, the raster buffer, the raster bounding rectangle, the pin
\* list and the background state exactly as they were.
C7_AllOrNothing ==
    [][IsLoad(op') => (ret' = "True" \/ UNCHANGED docVars)]_vars

\* C10: while no canvas file has been loaded, the pin registry holds the
\* default pin at (0,0).
C10_DefaultPin ==
    ~loaded => \E i \in 1..Len(pins) : pins[i] = default_pin

(***************************************************************************)
(* SpecExport: raster export among short mouse gestures (before the first  *)
(* save), clear, save and load of the file on disk (loading between        *)
(* gestures).                                                              *)
(***************************************************************************)
NextExport ==
    \/ ~canvas_file.exists /\ InkBelow(MaxInk)
          /\ MousePress(Points2, MaxPathLen, MaxStrokes)
    \/ ~canvas_file.exists /\ MouseMove(Points2, MaxDocPts)
    \/ MouseRelease
    \/ clear_canvas
    \/ Save
    \/ ~drawing /\ Load({canvas_file})
    \/ Export({<<0, 0, 0>>, <<255, 255, 255>>})

SpecExport == Init /\ [][NextExport]_vars

IsExport(o) == o.name = "save_raster_image"

\* Vector path empty and no ink composited into the raster.
noStrokes ==
    pathIsEmpty(vector_path) /\ BagCardinality(Content(raster_pixmap)) = 0

\* C9 as stated: in every state in which the document holds no strokes, the
\* raster export writes no file and changes no state.
C9_Original ==
    [][(IsExport(op') /\ noStrokes)
       => (png_writes' = png_writes /\ UNCHANGED docVars)]_vars

\* C9 amended: the export of a document without strokes writes no file and
\* changes no state when the raster was last filled by the constructor or by
\* clear; when the raster was last replaced by a load of a decodable image,
\* the bounding rectangle is the whole pixmap and the export writes a file,
\* even for a document saved without strokes.  The export never changes the
\* document.
C9_EmptyExport ==
    [][IsExport(op') =>
         /\ UNCHANGED docVars
         /\ (noStrokes /\ raster_pixmap.origin = "fill")
               => png_writes' = png_writes
         /\ (raster_pixmap.origin = "file" /\ ~raster_pixmap.null)
               => png_writes' = png_writes + 1]_vars

\* An export of a cleared canvas, after a load, has written nothing.
C9_Witness ==
    /\ IsExport(op) /\ png_writes = 0
    /\ loaded /\ noStrokes /\ raster_pixmap.origin = "fill"

(***************************************************************************)
(* SpecLoad: one load of a file with any element list of up to MaxElems    *)
(* records, the tags being the three the loader knows, the curve data tag  *)
(* and an unknown one.                                                     *)
(***************************************************************************)
UnknownTag == 9
Tags == {MoveToElement, LineToElement, CurveToElement, CurveToDataElement,
         UnknownTag}
Records == {[type |-> t, x |-> p[1], y |-> p[2]] : t \in Tags, p \in Points2}
ElementLists == UNION {[1..k -> Records] : k \in 0..MaxElems}
ElementFiles ==
    {CanvasFile([ok |-> TRUE, content |-> EmptyBag], es,
                <<pinRecord(default_pin)>>, TRUE) : es \in ElementLists}

NextLoad == ~loaded /\ Load(ElementFiles)

SpecLoad == Init /\ [][NextLoad]_vars

\* The loop's result on the first k records alone.
prefixRun(k) == reassemble(SubSeq(ld.elements, 1, k), 0, <<>>, -1)
\* Index k (0-based) is one the loop dispatches on: the records before it are
\* consumed exactly.
isHead(k) == prefixRun(k).i = k

\* C8: after a load of any element list, no index at or beyond the list
\* length was read; the loop stopped early only at a dispatched curve tag
\* followed by fewer than two further records, it does stop at such a tag,
\* and the vector path is then exactly the path rebuilt from the records
\* before that tag; a dispatched record with an unknown tag is skipped (the
\* path is as without it, the loop goes on) and the load still succeeds.
C8_TruncatedCurve ==
    IsLoad(op) =>
      LET n == Len(ld.elements)
      IN  /\ ld.reads < n
          /\ ret = "True"
          /\ ld.i < n =>
                /\ elemAt(ld.elements, ld.i).type = CurveToElement
                /\ ld.i + 2 >= n
                /\ isHead(ld.i)
                /\ vector_path = prefixRun(ld.i).path
          /\ \A k \in 0..(n - 1) :
                isHead(k) =>
                  /\ (elemAt(ld.elements, k).type = CurveToElement /\ k + 2 >= n)
                        => ld.i = k
                  /\ elemAt(ld.elements, k).type
                        \notin {MoveToElement, LineToElement, CurveToElement}
                        => /\ prefixRun(k + 1).path = prefixRun(k).path
                           /\ prefixRun(k + 1).i = k + 1
                           /\ ld.i > k

\* A load that skipped an unknown tag and then stopped at a truncated curve
\* run, keeping the line rebuilt before it.
C8_Witness ==
    /\ IsLoad(op) /\ ret = "True"
    /\ ld.i < Len(ld.elements)
    /\ \E k \in 0..(ld.i - 1) :
          isHead(k) /\ elemAt(ld.elements, k).type = UnknownTag
    /\ \E j \in 1..Len(vector_path) : vector_path[j].type = LineToElement

(***************************************************************************)
(* SpecPen: stylus gestures at several pressures, mouse gestures and       *)
(* clear: the pen width.                                                   *)
(***************************************************************************)
\* Pressures in hundredths: 0, 0.05, 0.1 (where 10*p meets the floor), 0.5, 1.
Pressures == {0, 5, 10, 50, 100}

NextPen ==
    \/ Tablet(Points2, Pressures, MaxDocPts, MaxPathLen, MaxStrokes)
    \/ MousePress(Points2, MaxPathLen, MaxStrokes)
    \/ MouseMove(Points2, MaxDocPts)
    \/ MouseRelease
    \/ clear_canvas

SpecPen == Init /\ [][NextPen]_vars

\* max(1, 10*p) in tenths of a unit for p in hundredths: 10*p is p tenths.
widthFor(p) == IF p < 10 THEN 10 ELSE p

\* C11: a stylus press with pressure p, and a stylus move with pressure p
\* received while Drawing, record the width max(1, 10*p) as the sample's
\* width (the last of the per-gesture width list) and set it as the current
\* pen width (0.05 gives 1, 0.5 gives 5); every recorded width and the
\* current pen width are at least 1 in every state; and no handler other
\* than the stylus handler changes the pen width, so it is the same at the
\* start and at the end of a mouse gesture.
C11_PenWidth ==
    /\ [](/\ current_pen_width >= 10
          /\ \A i \in 1..Len(stroke_pen_widths) : stroke_pen_widths[i] >= 10)
    /\ [][/\ \A pt \in Points2, p \in Pressures :
               /\ tabletEvent("TabletPress", pt, p) =>
                     /\ current_pen_width' = widthFor(p)
                     /\ stroke_pen_widths' = <<widthFor(p)>>
               /\ (drawing /\ tabletEvent("TabletMove", pt, p)) =>
                     /\ current_pen_width' = widthFor(p)
                     /\ stroke_pen_widths' = Append(stroke_pen_widths, widthFor(p))
          /\ widthFor(5) = 10 /\ widthFor(50) = 50
          /\ op'.name # "tabletEvent" => current_pen_width' = current_pen_width
         ]_vars

\* A stylus gesture whose press had pressure 0.05 and whose move had
\* pressure 0.5: the widths 1 and 5 were recorded, 5 is the current width.
C11_Witness ==
    /\ op = [name |-> "tabletEvent", arg |-> "TabletMove"] /\ drawing
    /\ stroke_pen_widths = <<10, 50>>
    /\ current_pen_width = 50

(***************************************************************************)
(* SpecBin: one export of a drawn document, the sampled pixel of the       *)
(* painted image ranging over red and green in {0, 255} and every blue, so *)
(* over every channel sum 0..765.                                          *)
(***************************************************************************)
BinPixels ==
    {<<r, g, b>> : r \in {0, MaxChannel}, g \in {0, MaxChannel},
                   b \in 0..MaxChannel}

NextBin ==
    \/ png_writes = 0 /\ MousePress(Points2, MaxPathLen, MaxStrokes)
    \/ png_writes = 0 /\ MouseMove(Points2, MaxDocPts)
    \/ MouseRelease
    \/ png_writes = 0 /\ Export(BinPixels)

SpecBin == Init /\ [][NextBin]_vars

\* C12: a pixel with channels r, g, b in 0..255 is exported as pure black
\* when its channel average (r+g+b)/3 is below 128 and as pure white
\* otherwise: an average of exactly 128 (sum 384) gives white, an average of
\* 127 (sum 381) gives black, and an exported pixel has no other colour.
C12_Binarize ==
    exported # NoExport =>
        LET r == exported.pixel[1]
            g == exported.pixel[2]
            b == exported.pixel[3]
        IN  /\ exported.colour \in {"black", "white"}
            /\ exported.colour = "black" <=> (r + g + b) \div 3 < 128
            /\ r + g + b = 3 * 128 => exported.colour = "white"
            /\ r + g + b = 3 * 127 => exported.colour = "black"

\* An export wrote a pixel whose channel average is exactly 128, the
\* channels being unequal, as white.
C12_Witness ==
    /\ IsExport(op) /\ png_writes > 0
    /\ exported = [pixel |-> <<255, 0, 129>>, colour |-> "white"]

(***************************************************************************)
(* The compositor and the per-gesture sample list, under Spec.             *)
(***************************************************************************)
\* The step composited a stroke: the raster's stroke log grew.
Composited == Len(raster_pixmap'.log) > Len(raster_pixmap.log)

\* C13: whenever the controller is Drawing the per-gesture sample list holds
\* at least one point, whatever clear or load came inside the gesture; the
\* compositor runs only in a stylus release or a primary-button release
\* received in Drawing; no handler fails reading the first sample of an
\* empty list; and the release of a gesture of a single press composites
\* that one sample without failure.
C13_NoEmptyStroke ==
    /\ [](drawing => stroke_points # <<>>)
    /\ [](ret # "raised")
    /\ [][/\ Composited =>
               /\ drawing
               /\ IsStylusRelease(op') \/ (IsButtonRelease(op') /\ ~use_tablet)
               /\ raster_pixmap'.log =
                     Append(raster_pixmap.log,
                            paintedStroke(stroke_points, current_pen_width))
          /\ (/\ drawing /\ Len(stroke_points) = 1
              /\ IsStylusRelease(op') \/ (IsButtonRelease(op') /\ ~use_tablet))
               => (Composited /\ ret' = "None" /\ ~drawing')
         ]_vars

\* A mouse gesture of a single press, with a clear inside it (the press's
\* MoveTo is gone), was released and composited its one sample.
C13_Witness ==
    /\ IsButtonRelease(op) /\ ~use_tablet /\ ~drawing /\ ret = "None"
    /\ Len(stroke_points) = 1 /\ vector_path = <<>> /\ ~loaded
    /\ Len(raster_pixmap.log) = 1
    /\ raster_pixmap.log[1].points = {stroke_points[1]}

====
